---------------------------- MODULE Spec2Model ----------------------------
(* Topology attributes of MDAnalysis (package/MDAnalysis/core/topologyattrs.py):
   per-level get/set dispatch of TopologyAttr, the atom-level scalar
   attributes (Atomids, Atomnames, Atomtypes, Masses, Charges), the Resids
   attribute with its atom reassignment, and the connectivity attributes
   (Bonds, Angles, Dihedrals, Impropers) with their lazily built, cached
   atom -> tuples dictionary.

   Arrays indexed by the program from 0 are functions over 0..n-1; index
   arrays of groups (ag._ix, rg._ix, sg._ix) and argument lists are sequences. *)
EXTENDS Integers, Sequences, FiniteSets, TLC

(* ---------------------------------------------------------------- bounds *)
NAtoms == 3
NRes == 2
NSeg == 2
MaxLen == 2
MaxTuples == 2

Atoms == 0 .. (NAtoms - 1)
Residues == 0 .. (NRes - 1)
Segments == 0 .. (NSeg - 1)

(* values an atom-level scalar attribute may hold (masses, charges, ids) *)
Vals == {1, 16}
(* resids stored by the residues, and a resid no residue carries *)
ResidVals == {10, 20}
ResidArgs == ResidVals \cup {99}

(* index arrays of a group: any order, repetitions allowed *)
IndexSeqs(S) == UNION {[1 .. n -> S] : n \in 0 .. MaxLen}

VARIABLES cls, values, resindex, segindex, cache, last
vars == <<cls, values, resindex, segindex, cache, last>>

(* ------------------------------------------------------- general helpers *)
Range(s) == {s[i] : i \in 1 .. Len(s)}

Min(S) == CHOOSE x \in S : \A y \in S : x <= y

RECURSIVE SortedSeq(_)
SortedSeq(S) == IF S = {} THEN <<>> ELSE <<Min(S)>> \o SortedSeq(S \ {Min(S)})

RECURSIVE Flatten(_)
Flatten(rows) == IF rows = <<>> THEN <<>> ELSE Head(rows) \o Flatten(Tail(rows))

(* the record every operation leaves behind: its name, the index array of the
   group it was called with, its value argument, how it ended, what it
   returned and whether it called tt.move_atom *)
Call(op, ix, arg, out, res, moved) ==
    [op |-> op, ix |-> ix, arg |-> arg, out |-> out, res |-> res, moved |-> moved]

NoCall == Call("init", <<>>, <<>>, "ok", <<>>, FALSE)

(* self._cache: whether it holds the key 'bd', and the dictionary under it *)
NoCache == [has |-> FALSE, bd |-> <<>>]

(* ------------------------------------------- translation table (top.tt) *)
a2r(ri, aix) == [i \in 1 .. Len(aix) |-> ri[aix[i]]]

r2a_2d(ri, rix) ==
    [i \in 1 .. Len(rix) |-> SortedSeq({a \in Atoms : ri[a] = rix[i]})]

r2a_1d(ri, rix) == Flatten(r2a_2d(ri, rix))

s2a_2d(ri, si, six) ==
    [i \in 1 .. Len(six) |-> SortedSeq({a \in Atoms : si[ri[a]] = six[i]})]

s2a_1d(ri, si, six) == Flatten(s2a_2d(ri, si, six))

(* numpy assignment through an index array, arr[ix] = v with one value per
   index: every addressed element receives one of the values addressed to
   it (numpy leaves open which when an index is repeated), the others keep
   theirs *)
Addressed(ix, v, k) == {v[j] : j \in {i \in 1 .. Len(ix) : ix[i] = k}}

RECURSIVE AssignEach(_, _, _, _)
AssignEach(arr, ix, v, ks) ==
    IF ks = {}
    THEN {arr}
    ELSE LET k == Min(ks)
         IN  {[f EXCEPT ![k] = c] :
                 f \in AssignEach(arr, ix, v, ks \ {k}), c \in Addressed(ix, v, k)}

IndexAssign(arr, ix, v) == AssignEach(arr, ix, v, Range(ix))

move_atom(ri, aix, rix) == IndexAssign(ri, aix, rix)

(* ------------------------------------------------------------- AtomAttr *)
AtomAttr_get_atoms_reversed(vals, aix) ==
    [i \in 1 .. Len(aix) |-> vals[aix[Len(aix) + 1 - i]]]

AtomAttr_get_atoms(vals, aix) == [i \in 1 .. Len(aix) |-> vals[aix[i]]]

(* the value argument as numpy broadcasts it against the index array: a
   single value is repeated, any other length mismatch is a ValueError *)
Broadcastable(aix, v) == Len(v) = Len(aix) \/ Len(v) = 1

Broadcast(aix, v) ==
    IF Len(v) = Len(aix) THEN v ELSE [i \in 1 .. Len(aix) |-> v[1]]

AtomAttr_set_atoms(vals, aix, v) == IndexAssign(vals, aix, Broadcast(aix, v))

AtomAttr_get_residues(vals, ri, rix) == AtomAttr_get_atoms(vals, r2a_1d(ri, rix))

AtomAttr_get_segments(vals, ri, si, six) ==
    AtomAttr_get_atoms(vals, s2a_1d(ri, si, six))

(* values[row].sum() *)
RECURSIVE RowSum(_, _)
RowSum(vals, row) ==
    IF row = <<>> THEN 0 ELSE vals[Head(row)] + RowSum(vals, Tail(row))

Masses_get_residues_flat(vals, ri, rix) == AtomAttr_get_residues(vals, ri, rix)

Masses_get_residues(vals, ri, rix) ==
    LET resatoms == r2a_2d(ri, rix)
    IN  [i \in 1 .. Len(rix) |-> RowSum(vals, resatoms[i])]

Masses_get_segments(vals, ri, si, six) ==
    LET segatoms == s2a_2d(ri, si, six)
    IN  [i \in 1 .. Len(six) |-> RowSum(vals, segatoms[i])]

Charges_get_residues(vals, ri, rix) ==
    LET resatoms == r2a_2d(ri, rix)
    IN  [i \in 1 .. Len(rix) |-> RowSum(vals, resatoms[i])]

Charges_get_segments(vals, ri, si, six) ==
    LET segatoms == s2a_2d(ri, si, six)
    IN  [i \in 1 .. Len(six) |-> RowSum(vals, segatoms[i])]

AtomClasses == {"Atomids", "Masses", "Charges"}

(* method resolution: Masses and Charges override get_residues and
   get_segments, the other atom attributes inherit AtomAttr's *)
get_residues(c, vals, ri, rix) ==
    CASE c = "Masses" -> Masses_get_residues(vals, ri, rix)
      [] c = "Charges" -> Charges_get_residues(vals, ri, rix)
      [] OTHER -> AtomAttr_get_residues(vals, ri, rix)

get_segments(c, vals, ri, si, six) ==
    CASE c = "Masses" -> Masses_get_segments(vals, ri, si, six)
      [] c = "Charges" -> Charges_get_segments(vals, ri, si, six)
      [] OTHER -> AtomAttr_get_segments(vals, ri, si, six)

(* ---------------------------------------- atom-level scalar attributes *)
(* residues dealt to the segments in turn, or all in segment 0 *)
SegMaps == {[r \in Residues |-> r % NSeg], [r \in Residues |-> 0]}

InitAtom ==
    /\ cls \in AtomClasses
    /\ values \in [Atoms -> Vals]
    /\ resindex \in [Atoms -> Residues]
    /\ segindex \in SegMaps
    /\ cache = NoCache
    /\ last = NoCall

(* the caller takes the outcome of the call it made; the attribute is then
   ready for the next call (the program is single-threaded and synchronous) *)
Idle == last = NoCall

Return ==
    /\ ~Idle
    /\ last' = NoCall
    /\ UNCHANGED <<cls, values, resindex, segindex, cache>>

(* attr[ag] = v *)
SetAtoms ==
    /\ Idle
    /\ \E aix \in IndexSeqs(Atoms), v \in IndexSeqs(Vals) :
        IF Broadcastable(aix, v)
        THEN /\ values' \in AtomAttr_set_atoms(values, aix, v)
             /\ last' = Call("set_atoms", aix, v, "ok", <<>>, FALSE)
             /\ UNCHANGED <<cls, resindex, segindex, cache>>
        ELSE /\ last' = Call("set_atoms", aix, v, "ValueError", <<>>, FALSE)
             /\ UNCHANGED <<cls, values, resindex, segindex, cache>>

(* attr[ag] *)
GetAtoms ==
    /\ Idle
    /\ \E aix \in IndexSeqs(Atoms) :
        /\ last' = Call("get_atoms", aix, <<>>, "ok",
                        AtomAttr_get_atoms(values, aix), FALSE)
        /\ UNCHANGED <<cls, values, resindex, segindex, cache>>

(* attr[rg] *)
GetResidues ==
    /\ Idle
    /\ \E rix \in IndexSeqs(Residues) :
        /\ last' = Call("get_residues", rix, <<>>, "ok",
                        get_residues(cls, values, resindex, rix), FALSE)
        /\ UNCHANGED <<cls, values, resindex, segindex, cache>>

(* attr[sg] *)
GetSegments ==
    /\ Idle
    /\ \E six \in IndexSeqs(Segments) :
        /\ last' = Call("get_segments", six, <<>>, "ok",
                        get_segments(cls, values, resindex, segindex, six), FALSE)
        /\ UNCHANGED <<cls, values, resindex, segindex, cache>>

(* attr[rg] = v and attr[sg] = v: TopologyAttr's defaults *)
SetCoarse ==
    /\ Idle
    /\ \E op \in {"set_residues", "set_segments"}, v \in [1 .. 1 -> Vals] :
        \E ix \in IndexSeqs(IF op = "set_residues" THEN Residues ELSE Segments) :
            /\ last' = Call(op, ix, v, "NotImplementedError", <<>>, FALSE)
            /\ UNCHANGED <<cls, values, resindex, segindex, cache>>

NextAtomWrite == SetAtoms \/ GetAtoms \/ SetCoarse \/ Return

NextAtomRead == GetAtoms \/ GetResidues \/ GetSegments \/ Return

(* writes and reads at the native level; the topology plays no part *)
InitAtomWrite == InitAtom /\ resindex = [a \in Atoms |-> a % NRes]

SpecAtomWrite == InitAtomWrite /\ [][NextAtomWrite]_vars

(* reads at every level, over every assignment of atoms to residues *)
SpecAtomRead == InitAtom /\ [][NextAtomRead]_vars

(* ---------------------------------------- properties: atom attributes *)
WroteOnePerIndex ==
    /\ cls \in AtomClasses
    /\ last.op = "set_atoms"
    /\ last.out = "ok"
    /\ Len(last.arg) = Len(last.ix)

(* C1 as stated: after A.write(G, v) with one value per index of G, indices
   in any order and possibly repeated, A.read(G) equals v element by element *)
C1_RoundTripAnyGroup ==
    WroteOnePerIndex => AtomAttr_get_atoms(values, last.ix) = last.arg

SameIndexSameValue(ix, v) ==
    \A i, j \in 1 .. Len(ix) : ix[i] = ix[j] => v[i] = v[j]

(* C1 amended: after A.write(G, v) with one value per index of G, indices in
   any order, an index being repeated only where every position that holds it
   is given the same value, A.read(G) equals v element by element *)
C1_RoundTrip ==
    (WroteOnePerIndex /\ SameIndexSameValue(last.ix, last.arg))
        => AtomAttr_get_atoms(values, last.ix) = last.arg

C1_Witness ==
    /\ WroteOnePerIndex
    /\ last.ix = <<2, 0>>
    /\ last.arg = <<16, 1>>
    /\ values[2] = 16
    /\ values[0] = 1

RECURSIVE SetSum(_, _)
SetSum(vals, S) ==
    IF S = {} THEN 0
    ELSE LET a == CHOOSE x \in S : TRUE IN vals[a] + SetSum(vals, S \ {a})

(* C2: for Masses and Charges, read_residues(rg) (and read_segments(sg))
   returns len(rg) values in the order of rg's indices, the value at position
   i being the sum of values[a] over the atoms a that belong to rg.indices[i] *)
C2_AggregatingRead ==
    /\ (cls \in {"Masses", "Charges"} /\ last.op = "get_residues")
          => /\ last.out = "ok"
             /\ Len(last.res) = Len(last.ix)
             /\ \A i \in 1 .. Len(last.ix) :
                   last.res[i] =
                     SetSum(values, {a \in Atoms : resindex[a] = last.ix[i]})
    /\ (cls \in {"Masses", "Charges"} /\ last.op = "get_segments")
          => /\ last.out = "ok"
             /\ Len(last.res) = Len(last.ix)
             /\ \A i \in 1 .. Len(last.ix) :
                   last.res[i] =
                     SetSum(values,
                            {a \in Atoms : segindex[resindex[a]] = last.ix[i]})

(* masses [1, 16, 1] with atom-to-residue mapping [0, 0, 1] read at
   rg = [1, 0] give [1, 17] *)
C2_Witness ==
    /\ cls = "Masses"
    /\ last.op = "get_residues"
    /\ values = [a \in Atoms |-> IF a = 1 THEN 16 ELSE 1]
    /\ resindex = [a \in Atoms |-> IF a = 2 THEN 1 ELSE 0]
    /\ last.ix = <<1, 0>>
    /\ last.res = <<1, 17>>


(* ---------------------------------------------------------- ResidueAttr *)
ResidueAttr_get_atoms(vals, ri, aix) ==
    LET rix == a2r(ri, aix) IN [i \in 1 .. Len(rix) |-> vals[rix[i]]]

ResidueAttr_get_residues(vals, rix) == [i \in 1 .. Len(rix) |-> vals[rix[i]]]

ResidueAttr_set_residues(vals, rix, v) == IndexAssign(vals, rix, Broadcast(rix, v))

(* --------------------------------------------------------------- Resids *)
Matches(vals, item) == {j \in DOMAIN vals : vals[j] = item}

LastMatch(vals, item) == CHOOSE j \in Matches(vals, item) : \A k \in Matches(vals, item) : k <= j

(* np.where(self.values == item)[0][0] *)
FirstMatch(vals, item) == Min(Matches(vals, item))

(* the loop over enumerate(resids), from position i on, rix holding the
   residue indices resolved so far; an item without a match, or a position
   beyond the end of rix, is the IndexError the loop turns into NoDataError *)
RECURSIVE ResolveIgnoringMissing(_, _, _, _)
ResolveIgnoringMissing(vals, resids, i, rix) ==
    IF i > Len(resids) THEN [out |-> "ok", rix |-> rix]
    ELSE IF Matches(vals, resids[i]) = {} \/ i > Len(rix)
         THEN ResolveIgnoringMissing(vals, resids, i + 1, rix)
         ELSE ResolveIgnoringMissing(vals, resids, i + 1,
                                     [rix EXCEPT ![i] = FirstMatch(vals, resids[i])])

RECURSIVE Resolve(_, _, _, _)
Resolve(vals, resids, i, rix) ==
    IF i > Len(resids) THEN [out |-> "ok", rix |-> rix]
    ELSE IF Matches(vals, resids[i]) = {} \/ i > Len(rix)
         THEN [out |-> "NoDataError", rix |-> rix]
         ELSE Resolve(vals, resids, i + 1,
                      [rix EXCEPT ![i] = FirstMatch(vals, resids[i])])

(* rix = np.zeros(len(ag)), then the loop *)
Resids_set_atoms(vals, aix, resids) ==
    Resolve(vals, resids, 1, [i \in 1 .. Len(aix) |-> 0])

InitResids ==
    /\ cls = "Resids"
    /\ values \in [Residues -> ResidVals]
    /\ resindex \in [Atoms -> Residues]
    /\ segindex = [r \in Residues |-> r % NSeg]
    /\ cache = NoCache
    /\ last = NoCall

(* resids[ag] = values: moves the atoms *)
ResidsSetAtoms ==
    /\ Idle
    /\ \E aix \in IndexSeqs(Atoms), resids \in IndexSeqs(ResidArgs) :
        LET r == Resids_set_atoms(values, aix, resids)
        IN  IF r.out = "ok"
            THEN /\ resindex' \in move_atom(resindex, aix, r.rix)
                 /\ last' = Call("set_atoms", aix, resids, "ok", r.rix, TRUE)
                 /\ UNCHANGED <<cls, values, segindex, cache>>
            ELSE /\ last' = Call("set_atoms", aix, resids, r.out, <<>>, FALSE)
                 /\ UNCHANGED <<cls, values, resindex, segindex, cache>>

(* resids[ag] *)
ResidsGetAtoms ==
    /\ Idle
    /\ \E aix \in IndexSeqs(Atoms) :
        /\ last' = Call("get_atoms", aix, <<>>, "ok",
                        ResidueAttr_get_atoms(values, resindex, aix), FALSE)
        /\ UNCHANGED <<cls, values, resindex, segindex, cache>>

(* resids[rg] *)
ResidsGetResidues ==
    /\ Idle
    /\ \E rix \in IndexSeqs(Residues) :
        /\ last' = Call("get_residues", rix, <<>>, "ok",
                        ResidueAttr_get_residues(values, rix), FALSE)
        /\ UNCHANGED <<cls, values, resindex, segindex, cache>>

(* resids[rg] = values *)
ResidsSetResidues ==
    /\ Idle
    /\ \E rix \in IndexSeqs(Residues), v \in IndexSeqs(ResidVals) :
        IF Broadcastable(rix, v)
        THEN /\ values' \in ResidueAttr_set_residues(values, rix, v)
             /\ last' = Call("set_residues", rix, v, "ok", <<>>, FALSE)
             /\ UNCHANGED <<cls, resindex, segindex, cache>>
        ELSE /\ last' = Call("set_residues", rix, v, "ValueError", <<>>, FALSE)
             /\ UNCHANGED <<cls, values, resindex, segindex, cache>>

NextResids ==
    ResidsSetAtoms \/ ResidsGetAtoms \/ ResidsGetResidues \/ ResidsSetResidues
        \/ Return

SpecResids == InitResids /\ [][NextResids]_vars

(* ---------------------------------------- properties: Resids *)
Stored(vals) == {vals[r] : r \in DOMAIN vals}

(* C3: for a non-empty atom group ag of any size and a one-element list [r],
   r the resid of an existing residue, after Resids.write_atoms(ag, [r]) every
   atom of ag belongs to a residue whose resid is r *)
C3_SingleResidMovesAll ==
    (/\ cls = "Resids"
     /\ last.op = "set_atoms"
     /\ Len(last.ix) >= 1
     /\ Len(last.arg) = 1
     /\ last.arg[1] \in Stored(values))
        => /\ last.out = "ok"
           /\ \A k \in 1 .. Len(last.ix) : values[resindex[last.ix[k]]] = last.arg[1]

(* C4: a Resids.write_atoms whose resid list holds a value that matches no
   residue fails with NoData, does not call move_atom, moves no atom, creates
   no residue and leaves the Resids values as they were *)
C4_FailedReassignChangesNothing ==
    [][(/\ cls = "Resids"
        /\ last'.op = "set_atoms"
        /\ \E i \in 1 .. Len(last'.arg) : last'.arg[i] \notin Stored(values))
          => /\ last'.out = "NoDataError"
             /\ ~last'.moved
             /\ resindex' = resindex
             /\ values' = values
             /\ DOMAIN values' = DOMAIN values]_vars

C4_Witness ==
    /\ cls = "Resids"
    /\ last.op = "set_atoms"
    /\ last.out = "NoDataError"
    /\ ~last.moved
    /\ Len(last.ix) = 2
    /\ Len(last.arg) = 2
    /\ last.arg[1] \in Stored(values)
    /\ last.arg[2] \notin Stored(values)
    /\ values[resindex[last.ix[1]]] # last.arg[1]

(* C9: a Resids.write_atoms(ag, resids) with one resid per atom, every resid
   matching a residue, succeeds and hands move_atom, for each position i, the
   atom ag.indices[i] and the lowest residue index j with values[j] =
   resids[i]; the Resids values are not modified *)
C9_FirstMatchWins ==
    [][(/\ cls = "Resids"
        /\ last'.op = "set_atoms"
        /\ Len(last'.arg) = Len(last'.ix)
        /\ \A i \in 1 .. Len(last'.arg) : last'.arg[i] \in Stored(values))
          => /\ last'.out = "ok"
             /\ last'.moved
             /\ Len(last'.res) = Len(last'.ix)
             /\ \A i \in 1 .. Len(last'.ix) :
                   /\ last'.res[i] \in Residues
                   /\ values[last'.res[i]] = last'.arg[i]
                   /\ \A k \in Residues : k < last'.res[i] => values[k] # last'.arg[i]
             /\ values' = values]_vars

C9_Witness ==
    /\ cls = "Resids"
    /\ last.op = "set_atoms"
    /\ last.out = "ok"
    /\ last.moved
    /\ Len(last.ix) = 2
    /\ Len(last.arg) = 2
    /\ Cardinality(Matches(values, last.arg[1])) >= 2
    /\ last.res = <<0, 0>>
    /\ last.ix[1] # last.ix[2]
    /\ resindex[last.ix[1]] = 0
    /\ resindex[last.ix[2]] = 0


(* ------------------------------------- Bonds, Angles, Dihedrals, Impropers *)
ConnClasses == {"Bonds", "Angles"}

TupleLen(c) == IF c = "Bonds" THEN 2 ELSE 3

(* a bond, an angle: a chain of distinct atoms *)
Tuples(c) ==
    {t \in [1 .. TupleLen(c) -> Atoms] :
        \A i, j \in 1 .. TupleLen(c) : t[i] = t[j] => i = j}

(* the lists of tuples an attribute is constructed from (the lists of angles
   are enumerated one tuple shorter than the lists of bonds) *)
TupleSeqs(c) ==
    UNION {[1 .. n -> Tuples(c)] :
              n \in 0 .. (IF c = "Bonds" THEN MaxTuples ELSE MaxTuples - 1)}

(* b[::-1] *)
Reverse(b) == [i \in 1 .. Len(b) |-> b[Len(b) + 1 - i]]

LowFirst(b) == IF b[1] > b[Len(b)] THEN Reverse(b) ELSE b

(* if b[0] < b[-1]: b = b[::-1] *)
Orient(b) == IF b[1] < b[Len(b)] THEN Reverse(b) ELSE b

(* bd[a].append(b) on a defaultdict(list) *)
DictAppend(bd, a, b) ==
    IF a \in DOMAIN bd
    THEN [bd EXCEPT ![a] = Append(@, b)]
    ELSE [k \in DOMAIN bd \cup {a} |-> IF k = a THEN <<b>> ELSE bd[k]]

(* for a in b: bd[a].append(b), from position i of b on *)
RECURSIVE Register(_, _, _)
Register(bd, b, i) ==
    IF i > Len(b) THEN bd ELSE Register(DictAppend(bd, b[i], b), b, i + 1)

(* for b in self.values: ..., from position k of values on *)
RECURSIVE BuildFrom(_, _, _)
BuildFrom(vals, k, bd) ==
    IF k > Len(vals) THEN bd
    ELSE BuildFrom(vals, k + 1, Register(bd, Orient(vals[k]), 1))

BuildDict(vals) == BuildFrom(vals, 1, <<>>)

(* lib.util.cached: the value kept under the key if there is one, otherwise
   the value the wrapped function computes, which is then kept *)
cached(c, computed) == IF c.has THEN c.bd ELSE computed

bondDict_uncached(c, vals) == BuildDict(vals)

(* the _bondDict property *)
bondDict(c, vals) == cached(c, BuildDict(vals))

(* bd[a] on a defaultdict(list): a missing key is entered with an empty list *)
DictTouch(bd, a) ==
    IF a \in DOMAIN bd THEN bd
    ELSE [k \in DOMAIN bd \cup {a} |-> IF k = a THEN <<>> ELSE bd[k]]

RECURSIVE TouchAll(_, _, _)
TouchAll(bd, aix, i) ==
    IF i > Len(aix) THEN bd ELSE TouchAll(DictTouch(bd, aix[i]), aix, i + 1)

(* the order of Python tuples *)
RECURSIVE TupleLess(_, _)
TupleLess(s, t) ==
    IF s = <<>> THEN t # <<>>
    ELSE IF t = <<>> THEN FALSE
    ELSE IF Head(s) # Head(t) THEN Head(s) < Head(t)
    ELSE TupleLess(Tail(s), Tail(t))

RECURSIVE SortedTuples(_)
SortedTuples(S) ==
    IF S = {} THEN <<>>
    ELSE LET m == CHOOSE s \in S : \A t \in S \ {s} : TupleLess(s, t)
         IN  <<m>> \o SortedTuples(S \ {m})

(* Bonds.__len__: the dictionary it leaves in the cache and the result *)
Bonds_len(c, vals) ==
    LET bd == bondDict(c, vals)
    IN  [bd |-> bd, res |-> Cardinality(DOMAIN bd)]

(* Bonds.get_atoms: the dictionary it leaves in the cache and the sorted
   unique tuples the TopologyGroup is made of *)
Bonds_get_atoms(c, vals, aix) ==
    LET bd == TouchAll(bondDict(c, vals), aix, 1)
    IN  [bd |-> bd,
         res |-> SortedTuples(UNION {Range(bd[aix[i]]) : i \in 1 .. Len(aix)})]

(* self.values[aix] where values is a Python list and aix an index array: a
   TypeError, except that an array of one element is taken as a plain index
   by the numpy versions that still convert it *)
ListGetItem(vals, aix) ==
    {[out |-> "TypeError", res |-> <<>>]}
        \cup (IF Len(aix) # 1 THEN {}
              ELSE IF aix[1] < Len(vals)
                   THEN {[out |-> "ok", res |-> <<vals[aix[1] + 1]>>]}
                   ELSE {[out |-> "IndexError", res |-> <<>>]})

(* Bonds inherits get_residues and get_segments from AtomAttr *)
Bonds_get_residues(vals, ri, rix) == ListGetItem(vals, r2a_1d(ri, rix))

Bonds_get_segments(vals, ri, si, six) == ListGetItem(vals, s2a_1d(ri, si, six))

InitConn ==
    /\ cls \in ConnClasses
    /\ values \in TupleSeqs(cls)
    /\ resindex = [a \in Atoms |-> a % NRes]
    /\ segindex = [r \in Residues |-> r % NSeg]
    /\ cache = NoCache
    /\ last = NoCall

(* len(attr) *)
ConnLen ==
    /\ Idle
    /\ LET r == Bonds_len(cache, values)
       IN  /\ cache' = [has |-> TRUE, bd |-> r.bd]
           /\ last' = Call("len", <<>>, <<>>, "ok", <<r.res>>, FALSE)
    /\ UNCHANGED <<cls, values, resindex, segindex>>

(* attr[ag] *)
ConnGetAtoms ==
    /\ Idle
    /\ \E aix \in IndexSeqs(Atoms) :
        LET r == Bonds_get_atoms(cache, values, aix)
        IN  /\ cache' = [has |-> TRUE, bd |-> r.bd]
            /\ last' = Call("get_atoms", aix, <<>>, "ok", r.res, FALSE)
    /\ UNCHANGED <<cls, values, resindex, segindex>>

(* attr[rg] *)
ConnGetResidues ==
    /\ Idle
    /\ \E rix \in IndexSeqs(Residues) :
        \E r \in Bonds_get_residues(values, resindex, rix) :
            last' = Call("get_residues", rix, <<>>, r.out, r.res, FALSE)
    /\ UNCHANGED <<cls, values, resindex, segindex, cache>>

(* attr[sg] *)
ConnGetSegments ==
    /\ Idle
    /\ \E six \in IndexSeqs(Segments) :
        \E r \in Bonds_get_segments(values, resindex, segindex, six) :
            last' = Call("get_segments", six, <<>>, r.out, r.res, FALSE)
    /\ UNCHANGED <<cls, values, resindex, segindex, cache>>

NextConn == ConnLen \/ ConnGetAtoms \/ ConnGetResidues \/ ConnGetSegments \/ Return

(* the stored tuples stay as constructed *)
SpecConn == InitConn /\ [][NextConn]_vars

(* the owner of the attribute adds a tuple to values, written lower end
   first as topology files list them *)
OwnerAppend ==
    /\ Idle
    /\ Len(values) < MaxTuples
    /\ \E t \in {u \in Tuples(cls) : u[1] < u[Len(u)]} :
        /\ values' = Append(values, t)
        /\ last' = Call("append", <<>>, t, "ok", <<>>, FALSE)
    /\ UNCHANGED <<cls, resindex, segindex, cache>>

(* the owner of the attribute empties self._cache *)
OwnerClear ==
    /\ Idle
    /\ cache.has
    /\ cache' = NoCache
    /\ last' = Call("clear", <<>>, <<>>, "ok", <<>>, FALSE)
    /\ UNCHANGED <<cls, values, resindex, segindex>>

NextCache == ConnLen \/ ConnGetAtoms \/ OwnerAppend \/ OwnerClear \/ Return

(* the stored tuples change after construction *)
(* an attribute constructed without tuples; the owner adds them later *)
InitCache == InitConn /\ cls = "Bonds" /\ values = <<>>

SpecCache == InitCache /\ [][NextCache]_vars


(* ---------------------------------------- properties: connectivity *)
(* C5: reading a connectivity attribute through a residue group or a segment
   group always fails with NoData *)
C5_CoarseReadIsNoData ==
    (cls \in ConnClasses /\ last.op \in {"get_residues", "get_segments"})
        => last.out = "NoDataError"

AtomsIn(vals) == UNION {Range(vals[k]) : k \in 1 .. Len(vals)}

(* C6: with the stored tuples held fixed, after any sequence of len() and
   read_atoms calls, len(attribute) is the number of distinct atom indices
   that appear in at least one stored tuple *)
C6_LenCountsBondedAtoms ==
    (cls \in ConnClasses /\ last.op = "len")
        => last.res = <<Cardinality(AtomsIn(values))>>

C8_LowFirstOrientation ==
    (cls \in ConnClasses /\ cache.has)
        => \A a \in DOMAIN cache.bd :
             \A i \in 1 .. Len(cache.bd[a]) :
               cache.bd[a][i][1] <= cache.bd[a][i][Len(cache.bd[a][i])]

(* the entries of the map that hold tuples *)
Entries(bd) == [a \in {k \in DOMAIN bd : bd[k] # <<>>} |-> bd[a]]

TuplesAt(bd, a) == IF a \in DOMAIN bd THEN Range(bd[a]) ELSE {}

(* C10: once the map is built, a change of the stored tuples leaves the
   cached map as it is, and len() and read_atoms go on answering from it;
   only an access that finds the cache cleared builds the map from the
   current values *)
C10_StaleCache ==
    [][/\ last'.op = "append" => (values' # values /\ cache' = cache)
       /\ (cache.has /\ last'.op \in {"len", "get_atoms"})
            => /\ \A a \in DOMAIN cache.bd :
                    a \in DOMAIN cache'.bd /\ cache'.bd[a] = cache.bd[a]
               /\ \A a \in DOMAIN cache'.bd \ DOMAIN cache.bd : cache'.bd[a] = <<>>
       /\ (cache.has /\ last'.op = "len")
            => last'.res = <<Cardinality(DOMAIN cache.bd)>>
       /\ (cache.has /\ last'.op = "get_atoms")
            => Range(last'.res) =
                 UNION {TuplesAt(cache.bd, last'.ix[i]) : i \in 1 .. Len(last'.ix)}
       /\ (~cache.has /\ last'.op \in {"len", "get_atoms"})
            => (cache'.has /\ Entries(cache'.bd) = BuildDict(values))]_vars

(* a len() answered from a map built before a tuple was added *)
C10_Witness ==
    /\ cls = "Bonds"
    /\ cache.has
    /\ last.op = "len"
    /\ Len(values) = 2
    /\ Entries(cache.bd) = BuildDict(SubSeq(values, 1, 1))
    /\ Entries(cache.bd) # BuildDict(values)
    /\ last.res = <<2>>
    /\ Cardinality(AtomsIn(values)) = 3

=============================================================================
